---- MODULE Spec2Model ----
(***************************************************************************)
(* Model of src/mission.rs (bacon): the resolution of a Mission into the   *)
(* command to run (get_command), the feature merge (merge_features) and    *)
(* the job-vs-settings override chains (need_stdout, analyzer,             *)
(* ignored_lines_patterns).                                                *)
(*                                                                         *)
(* A Rust string is a sequence of symbols.  A symbol is either the comma,  *)
(* a reference to an environment variable ("$V"), or a chunk of text with  *)
(* no comma and no variable reference in it ("cargo", "--features", "a").  *)
(* A token of a command is such a string; a comma separated feature list   *)
(* "a,b" is << "a", ",", "b" >>.  Option<T> is a sequence of length 0      *)
(* (None) or 1 (Some(x)).                                                  *)
(***************************************************************************)
EXTENDS Naturals, Sequences, FiniteSets

VARIABLES job, settings, scope, env, input, result

vars == << job, settings, scope, env, input, result >>

(* ---------------------------- bounds ----------------------------------- *)

MaxCmdLen == 3
MaxScanLen == 4
MaxTests == 2
MaxFeatLen == 3
MaxPatterns == 1

(* ---------------------------- strings ---------------------------------- *)

None == << >>
Some(x) == << x >>

Comma == ","
VarRef == "$V"

Cargo == << "cargo" >>
Test == << "test" >>
Nextest == << "nextest" >>
Check == << "check" >>
DoubleDash == << "--" >>
FeaturesFlag == << "--features" >>
NoDefaultFeaturesFlag == << "--no-default-features" >>
AllFeaturesFlag == << "--all-features" >>
VarToken == << VarRef >>

BoundedSeq(S, n) == UNION { [1..k -> S] : k \in 0..n }

Range(s) == { s[i] : i \in 1..Len(s) }

RECURSIVE Concat(_)
Concat(ss) == IF ss = << >> THEN << >> ELSE Head(ss) \o Concat(Tail(ss))

(* str::split(','): never empty, "" splits into one empty name *)
RECURSIVE Split(_)
Split(s) ==
    IF \A i \in 1..Len(s) : s[i] # Comma
    THEN << s >>
    ELSE LET i == CHOOSE k \in 1..Len(s) :
                      s[k] = Comma /\ \A j \in 1..(k - 1) : s[j] # Comma
         IN  << SubSeq(s, 1, i - 1) >> \o Split(SubSeq(s, i + 1, Len(s)))

(* [&str]::join(",") *)
RECURSIVE Join(_)
Join(names) ==
    IF names = << >> THEN << >>
    ELSE IF Len(names) = 1 THEN names[1]
    ELSE names[1] \o << Comma >> \o Join(Tail(names))

(* the orders in which a hash set may iterate over its elements *)
RECURSIVE IterationOrders(_)
IterationOrders(S) ==
    IF S = {} THEN { << >> }
    ELSE UNION { { << x >> \o p : p \in IterationOrders(S \ { x }) } : x \in S }

(* ------------------------- merge_features ------------------------------ *)

(* the lists put one after the other, a name of both kept twice *)
merge_features_concat(a, b) == { Join(Split(a) \o Split(b)) }

(* the strings merge_features(a, b) may return: the iteration order of the
   FxHashSet is not specified *)
merge_features(a, b) ==
    LET features == Range(Split(a)) \cup Range(Split(b))
    IN  { Join(p) : p \in IterationOrders(features) }

(* --------------------------- get_command ------------------------------- *)

(* regex_replace_all!(r"\$([A-Z0-9a-z_]+)", token, ..) : a variable found in
   the environment is replaced by its value, one not found is left as is *)
ExpandToken(token, e) ==
    Concat([i \in 1..Len(token) |->
              IF token[i] = VarRef /\ e # None THEN e[1] ELSE << token[i] >>])

ExpandedCommand(j, e) ==
    IF j.expand_env_vars
    THEN [i \in 1..Len(j.command) |-> ExpandToken(j.command[i], e)]
    ELSE j.command

has_tests(sc) == sc.tests # << >>

Err == [kind |-> "Err"]
Panic == [kind |-> "Panic"]
Ok(exe, args) == [kind |-> "Ok", exe |-> exe, args |-> args]

(* &scope.tests[..1] panics on an empty list *)
SliceToOnePanics(sc) == Len(sc.tests) < 1

ScopeApplies(command, sc) == has_tests(sc) /\ Len(command) > 2

IsCargoTest(command) == command[1] = Cargo /\ command[2] = Test

ScopedTests(command, sc) ==
    IF IsCargoTest(command) THEN SubSeq(sc.tests, 1, 1) ELSE sc.tests

ScopedCommand(command, sc) ==
    IF ScopeApplies(command, sc)
    THEN command \o ScopedTests(command, sc)
    ELSE command

ScanInit ==
    [ args |-> << >>,
      no_default_features_done |-> FALSE,
      features_done |-> FALSE,
      last_is_features |-> FALSE,
      has_double_dash |-> FALSE,
      tokens |-> << >> ]

(* the features of the job kept when no_default_features is set *)
FeaturesValueArgsAlwaysMerged(arg, s) ==
    IF s.features # None
    THEN { << FeaturesFlag, m >> : m \in merge_features(arg, s.features[1]) }
    ELSE { << FeaturesFlag, arg >> }

(* match (&self.settings.features, self.settings.no_default_features) *)
FeaturesValueArgs(arg, s) ==
    IF s.features # None /\ ~s.no_default_features
    THEN { << FeaturesFlag, m >> : m \in merge_features(arg, s.features[1]) }
    ELSE IF s.features # None /\ s.no_default_features
    THEN { << FeaturesFlag, s.features[1] >> }
    ELSE IF s.no_default_features
    THEN { << >> }
    ELSE { << FeaturesFlag, arg >> }

(* the features of the job kept next to --all-features *)
IgnoreJobFeaturesNever(s) == FALSE

(* if self.settings.all_features { debug!("ignoring features ..") } *)
IgnoreJobFeatures(s) == s.all_features

(* one iteration of the loop over the tokens, for an arg that is not "--" *)
ScanStep(st, arg, s) ==
    IF st.last_is_features
    THEN IF IgnoreJobFeatures(s)
         THEN { [st EXCEPT !.last_is_features = FALSE] }
         ELSE { [st EXCEPT !.features_done = TRUE,
                           !.args = @ \o added,
                           !.last_is_features = FALSE] :
                  added \in FeaturesValueArgs(arg, s) }
    ELSE IF arg = NoDefaultFeaturesFlag
    THEN { [st EXCEPT !.no_default_features_done = TRUE,
                      !.last_is_features = FALSE,
                      !.args = Append(@, arg)] }
    ELSE IF arg = FeaturesFlag
    THEN { [st EXCEPT !.last_is_features = TRUE] }
    ELSE { [st EXCEPT !.args = Append(@, arg)] }

(* for arg in tokens.by_ref() { .. } : the states the loop may end in, with
   the tokens it has not consumed *)
RECURSIVE Scan(_, _, _)
Scan(tokens, st, s) ==
    IF tokens = << >>
    THEN { [st EXCEPT !.tokens = << >>] }
    ELSE IF Head(tokens) = DoubleDash
    THEN { [st EXCEPT !.has_double_dash = TRUE, !.tokens = Tail(tokens)] }
    ELSE UNION { Scan(Tail(tokens), st2, s) : st2 \in ScanStep(st, Head(tokens), s) }

(* --no-default-features added again after the job gave it *)
PostScanArgsRepeated(st, s) ==
    (IF s.no_default_features THEN << NoDefaultFeaturesFlag >> ELSE << >>)
    \o (IF s.all_features THEN << AllFeaturesFlag >> ELSE << >>)
    \o (IF ~st.features_done /\ s.features # None /\ ~s.all_features
        THEN << FeaturesFlag, s.features[1] >> ELSE << >>)

(* the arguments added after the loop and before the deferred ones *)
PostScanArgs(st, s) ==
    (IF s.no_default_features /\ ~st.no_default_features_done
     THEN << NoDefaultFeaturesFlag >> ELSE << >>)
    \o (IF s.all_features THEN << AllFeaturesFlag >> ELSE << >>)
    \o (IF ~st.features_done /\ s.features # None /\ ~s.all_features
        THEN << FeaturesFlag, s.features[1] >> ELSE << >>)

DeferredArgs(st) ==
    IF st.has_double_dash THEN << DoubleDash >> \o st.tokens ELSE << >>

(* the deferred arguments added before the ones of the features *)
ExtraneousArgsDeferredFirst(rest, s) ==
    { st.args \o DeferredArgs(st) \o PostScanArgs(st, s) :
        st \in Scan(rest \o s.additional_job_args, ScanInit, s) }

ExtraneousArgs(rest, s) ==
    { st.args \o PostScanArgs(st, s) \o DeferredArgs(st) :
        st \in Scan(rest \o s.additional_job_args, ScanInit, s) }

(* the check of the empty command left out *)
CommandIsEmptyUnchecked(command) == FALSE

(* the arguments of settings added whatever the job asks for *)
UsesExtraneousArgsAlways(j) == TRUE

(* if command.is_empty() { anyhow::bail!(..) } *)
CommandIsEmpty(command) == command = << >>

(* if !self.job.extraneous_args() { .. return Ok(command); } *)
UsesExtraneousArgs(j) == j.extraneous_args

(* the outcomes of Mission::get_command; tokens.next().unwrap() panics when
   there is no token *)
get_command(j, s, sc, e) ==
    LET expanded == ExpandedCommand(j, e)
    IN  IF CommandIsEmpty(expanded)
        THEN { Err }
        ELSE IF ScopeApplies(expanded, sc) /\ IsCargoTest(expanded)
                /\ SliceToOnePanics(sc)
        THEN { Panic }
        ELSE LET command == ScopedCommand(expanded, sc)
             IN  IF command = << >>
                 THEN { Panic }
                 ELSE IF ~UsesExtraneousArgs(j)
                 THEN { Ok(Head(command), Tail(command)) }
                 ELSE { Ok(Head(command), args) :
                          args \in ExtraneousArgs(Tail(command), s) }

(* ------------------------- override chains ----------------------------- *)

DefaultAnalyzer == "standard"

Analyzers == { DefaultAnalyzer, "nextest" }

OrElse(a, b) == IF a # None THEN a ELSE b

need_stdout(j, s) ==
    LET v == OrElse(j.need_stdout, s.all_jobs.need_stdout)
    IN  IF v # None THEN v[1] ELSE FALSE

analyzer(j, s) == IF j.analyzer # None THEN j.analyzer[1] ELSE DefaultAnalyzer

(* the empty list of the job filtered out before the fallback *)
ignored_lines_patterns_filter_first(j, s) ==
    LET own == IF j.ignored_lines # None /\ j.ignored_lines[1] # << >>
               THEN j.ignored_lines ELSE None
        v == OrElse(own, s.all_jobs.ignored_lines)
    IN  IF v # None /\ v[1] # << >> THEN v ELSE None

ignored_lines_patterns(j, s) ==
    LET v == OrElse(j.ignored_lines, s.all_jobs.ignored_lines)
    IN  IF v # None /\ v[1] # << >> THEN v ELSE None

(* ------------------------------ state ---------------------------------- *)

Option(S) == { None } \cup { Some(x) : x \in S }

NoCall == [op |-> "none"]

NoInput == [a |-> << >>, b |-> << >>]

DefaultJob ==
    [ command |-> << >>,
      expand_env_vars |-> FALSE,
      extraneous_args |-> TRUE,
      need_stdout |-> None,
      analyzer |-> None,
      ignored_lines |-> None ]

DefaultAllJobs ==
    [ need_stdout |-> None, analyzer |-> None, ignored_lines |-> None ]

DefaultSettings ==
    [ features |-> None,
      no_default_features |-> FALSE,
      all_features |-> FALSE,
      additional_job_args |-> << >>,
      all_jobs |-> DefaultAllJobs ]

TestNames == << << "a" >>, << "b" >>, << "c" >>, << "d" >> >>

Scopes(n) == { [tests |-> SubSeq(TestNames, 1, k)] : k \in 0..n }

FeatB == << "b" >>
FeatAB == << "a", Comma, "b" >>

(* commands, environment and scopes: expansion and test scoping *)
CmdTokens == { Cargo, Test, Nextest, VarToken }

InitCmd ==
    /\ \E c \in BoundedSeq(CmdTokens, MaxCmdLen), x, ea \in BOOLEAN :
         job = [DefaultJob EXCEPT !.command = c,
                                  !.expand_env_vars = x,
                                  !.extraneous_args = ea]
    /\ \E f \in Option({ FeatB }), nd, af \in BOOLEAN,
          extra \in { << >>, << Nextest >> } :
         settings = [DefaultSettings EXCEPT !.features = f,
                                            !.no_default_features = nd,
                                            !.all_features = af,
                                            !.additional_job_args = extra]
    /\ scope \in Scopes(MaxTests)
    /\ env \in Option({ << >>, Cargo })
    /\ input = NoInput
    /\ result = NoCall

(* commands with feature flags and separators, extraneous_args set *)
ScanTokens ==
    { Check, DoubleDash, FeaturesFlag, NoDefaultFeaturesFlag, FeatAB }

InitScan ==
    /\ \E c \in BoundedSeq(ScanTokens, MaxScanLen) :
         job = [DefaultJob EXCEPT !.command = << Cargo >> \o c]
    /\ \E f \in Option({ FeatB }), nd, af \in BOOLEAN,
          extra \in { << >>, << FeaturesFlag >>, << FeatB >>,
                      << DoubleDash, FeaturesFlag >> } :
         settings = [DefaultSettings EXCEPT !.features = f,
                                            !.no_default_features = nd,
                                            !.all_features = af,
                                            !.additional_job_args = extra]
    /\ scope \in Scopes(1)
    /\ env = None
    /\ input = NoInput
    /\ result = NoCall

Patterns == { "p", "q" }

PolicyValues ==
    [ need_stdout : Option(BOOLEAN),
      analyzer : Option(Analyzers),
      ignored_lines : Option(BoundedSeq(Patterns, MaxPatterns)) ]

InitPolicy ==
    /\ \E p \in PolicyValues :
         job = [DefaultJob EXCEPT !.command = << Cargo >>,
                                  !.need_stdout = p.need_stdout,
                                  !.analyzer = p.analyzer,
                                  !.ignored_lines = p.ignored_lines]
    /\ \E p \in PolicyValues :
         settings = [DefaultSettings EXCEPT !.all_jobs = p]
    /\ scope \in Scopes(0)
    /\ env = None
    /\ input = NoInput
    /\ result = NoCall

FeatureChars == { "a", "b", Comma }

(* the two arguments of a call of merge_features *)
InitMerge ==
    /\ job = DefaultJob
    /\ settings = DefaultSettings
    /\ scope \in Scopes(0)
    /\ env = None
    /\ input \in [a : BoundedSeq(FeatureChars, MaxFeatLen),
                  b : BoundedSeq(FeatureChars, MaxFeatLen)]
    /\ result = NoCall

(* ----------------------------- actions --------------------------------- *)

GetCommand ==
    /\ \E r \in get_command(job, settings, scope, env) :
         result' = [op |-> "get_command", out |-> r]
    /\ UNCHANGED << job, settings, scope, env, input >>

NeedStdout ==
    /\ result' = [op |-> "need_stdout", out |-> need_stdout(job, settings)]
    /\ UNCHANGED << job, settings, scope, env, input >>

Analyzer ==
    /\ result' = [op |-> "analyzer", out |-> analyzer(job, settings)]
    /\ UNCHANGED << job, settings, scope, env, input >>

IgnoredLinesPatterns ==
    /\ result' = [op |-> "ignored_lines_patterns",
                  out |-> ignored_lines_patterns(job, settings)]
    /\ UNCHANGED << job, settings, scope, env, input >>

(* one call of merge_features on the arguments in input *)
MergeFeatures ==
    /\ result = NoCall
    /\ \E m \in merge_features(input.a, input.b) :
         result' = [op |-> "merge_features", out |-> m]
    /\ UNCHANGED << job, settings, scope, env, input >>

NextCmd == GetCommand

Next == NeedStdout \/ Analyzer \/ IgnoredLinesPatterns

NextMerge == MergeFeatures

(* the override chains of a mission *)
Spec == InitPolicy /\ [][Next]_vars

(* get_command: expansion, test scoping, the two argument paths *)
SpecCmd == InitCmd /\ [][NextCmd]_vars

(* get_command: the scan of the arguments when extraneous_args is set *)
SpecScan == InitScan /\ [][NextCmd]_vars

(* merge_features on its own *)
SpecMerge == InitMerge /\ [][NextMerge]_vars

(* ------------------------- override chains: claims --------------------- *)

(* C6: analyzer() returns the job's analyzer if the job sets one, otherwise
   the analyzer of settings.all_jobs if set, otherwise the default one *)
C6_AnalyzerOverrideChain ==
    result.op = "analyzer" =>
        result.out =
            IF job.analyzer # None THEN job.analyzer[1]
            ELSE IF settings.all_jobs.analyzer # None
            THEN settings.all_jobs.analyzer[1]
            ELSE DefaultAnalyzer

(* C7: ignored_lines_patterns() never returns an empty list: it selects the
   list of the job if the job sets one, otherwise the list of
   settings.all_jobs, and returns none when the selected list is absent or
   empty, also when the job's list is empty and the global one is not *)
C7_IgnoredLinesNeverEmpty ==
    result.op = "ignored_lines_patterns" =>
        LET selected == IF job.ignored_lines # None
                        THEN job.ignored_lines
                        ELSE settings.all_jobs.ignored_lines
        IN  /\ result.out # Some(<< >>)
            /\ result.out =
                 IF selected = None \/ selected = Some(<< >>)
                 THEN None ELSE selected

C7_Witness ==
    /\ result.op = "ignored_lines_patterns"
    /\ job.ignored_lines = Some(<< >>)
    /\ settings.all_jobs.ignored_lines = Some(<< "p" >>)
    /\ result.out = None

(* ------------------------- merge_features: claims ---------------------- *)

NameSet(s) == Range(Split(s))

NoDuplicate(names) ==
    \A i, k \in 1..Len(names) : names[i] = names[k] => i = k

(* C8: the names of merge_features(a, b), split on the comma, are exactly
   the names of a and of b, each one once; so the result has the names of
   any merge_features(b, a), and merging a with itself gives the names of a
   once each *)
C8_MergeIsUnion ==
    result.op = "merge_features" =>
        LET out == Split(result.out)
            names == Range(out)
        IN  /\ names = NameSet(input.a) \cup NameSet(input.b)
            /\ NoDuplicate(out)
            /\ \A m \in merge_features(input.b, input.a) :
                 LET swapped == Split(m)
                 IN  Range(swapped) = names /\ Len(swapped) = Len(out)
            /\ input.a = input.b =>
                 /\ names = NameSet(input.a)
                 /\ Len(out) = Cardinality(NameSet(input.a))

C8_Witness ==
    /\ result.op = "merge_features"
    /\ input.a = << "a", Comma, "b" >>
    /\ input.b = << "b", Comma, "a" >>
    /\ result.out = << "b", Comma, "a" >>

(* --------------------------- get_command: claims ----------------------- *)

Called == result.op = "get_command"

Returned == Called /\ result.out.kind = "Ok"

(* the tokens of the command after the expansion of the variables *)
Expanded == ExpandedCommand(job, env)

FirstTest(tests) == IF tests = << >> THEN << >> ELSE << tests[1] >>

(* C1: when the scope has tests and the command has at least two tokens,
   the test names are appended to the tokens of the command: the first one
   only after "cargo" "test", all of them in order otherwise (read on the
   jobs that take the tokens verbatim, extraneous_args unset) *)
C1_ScopeAppendedFromTwoTokens ==
    (Called /\ has_tests(scope) /\ Len(Expanded) >= 2
       /\ ~job.extraneous_args) =>
        /\ result.out.kind = "Ok"
        /\ << result.out.exe >> \o result.out.args =
             Expanded \o
               (IF Expanded[1] = Cargo /\ Expanded[2] = Test
                THEN FirstTest(scope.tests) ELSE scope.tests)

(* C2: get_command fails if and only if the command has no token after the
   expansion of the variables; otherwise it returns, never panics, and the
   executable is the first token *)
C2_ErrorIffEmptyCommand ==
    Called =>
        /\ result.out.kind # "Panic"
        /\ result.out.kind = "Err" <=> Expanded = << >>
        /\ result.out.kind = "Ok" => result.out.exe = Expanded[1]

C2_Witness ==
    /\ Called
    /\ result.out.kind = "Err"
    /\ job.expand_env_vars
    /\ settings.all_features
    /\ scope.tests # << >>

(* C3: with extraneous_args unset the arguments are the tokens of the
   command after the first one, followed by the test names the scope
   injected if any, and nothing else, whatever the settings hold *)
C3_VerbatimWithoutExtraneousArgs ==
    (Returned /\ ~job.extraneous_args) =>
        \E injected \in { << >>, FirstTest(scope.tests), scope.tests } :
            /\ result.out.args = Tail(Expanded) \o injected
            /\ injected # << >> => has_tests(scope)

C3_Witness ==
    /\ Returned
    /\ ~job.extraneous_args
    /\ settings.features # None
    /\ settings.no_default_features
    /\ settings.all_features
    /\ settings.additional_job_args # << >>
    /\ scope.tests # << >>
    /\ job.command = << Cargo, Nextest, Test >>
    /\ result.out.args = << Nextest, Test >> \o scope.tests

(* ----------------------- get_command: the scan, claims ----------------- *)

(* the tokens the scan is given: the command after its first token, then
   the additional arguments of the settings *)
InputTokens ==
    Tail(ScopedCommand(Expanded, scope)) \o settings.additional_job_args

(* the index of the first "--", or one past the end *)
FirstDash(seq) ==
    IF \E i \in 1..Len(seq) : seq[i] = DoubleDash
    THEN CHOOSE i \in 1..Len(seq) :
           seq[i] = DoubleDash /\ \A k \in 1..(i - 1) : seq[k] # DoubleDash
    ELSE Len(seq) + 1

BeforeDash(seq) == SubSeq(seq, 1, FirstDash(seq) - 1)

AfterDash(seq) == SubSeq(seq, FirstDash(seq) + 1, Len(seq))

From(seq, i) == SubSeq(seq, i, Len(seq))

(* the token at i is the value of a --features: the token before it is a
   --features that is not itself such a value *)
RECURSIVE IsFeaturesValue(_, _)
IsFeaturesValue(seq, i) ==
    i > 1 /\ seq[i - 1] = FeaturesFlag /\ ~IsFeaturesValue(seq, i - 1)

FeaturesValues(seq) == { i \in 1..Len(seq) : IsFeaturesValue(seq, i) }

(* the token at i comes right after a --features token, of any role *)
AfterFeaturesToken(seq) ==
    { i \in 1..Len(seq) : i > 1 /\ seq[i - 1] = FeaturesFlag }

IsMergeOf(m, a, b) ==
    /\ NameSet(m) = NameSet(a) \cup NameSet(b)
    /\ NoDuplicate(Split(m))

(* out is what the scan is said to emit for the tokens of seq from i on,
   the tokens at the indexes of values being the values of a --features *)
RECURSIVE ScanEmits(_, _, _, _, _)
ScanEmits(out, seq, i, s, values) ==
    IF i > Len(seq) THEN out = << >>
    ELSE IF i \in values
    THEN IF s.all_features
         THEN ScanEmits(out, seq, i + 1, s, values)
         ELSE IF s.features # None /\ ~s.no_default_features
         THEN /\ Len(out) >= 2
              /\ out[1] = FeaturesFlag
              /\ IsMergeOf(out[2], seq[i], s.features[1])
              /\ ScanEmits(From(out, 3), seq, i + 1, s, values)
         ELSE IF s.features # None
         THEN /\ Len(out) >= 2
              /\ out[1] = FeaturesFlag
              /\ out[2] = s.features[1]
              /\ ScanEmits(From(out, 3), seq, i + 1, s, values)
         ELSE IF s.no_default_features
         THEN ScanEmits(out, seq, i + 1, s, values)
         ELSE /\ Len(out) >= 2
              /\ out[1] = FeaturesFlag
              /\ out[2] = seq[i]
              /\ ScanEmits(From(out, 3), seq, i + 1, s, values)
    ELSE IF seq[i] = FeaturesFlag
    THEN ScanEmits(out, seq, i + 1, s, values)
    ELSE /\ Len(out) >= 1
         /\ out[1] = seq[i]
         /\ ScanEmits(Tail(out), seq, i + 1, s, values)

(* the tokens that are neither a --features nor its value *)
RECURSIVE PlainTokens(_, _)
PlainTokens(seq, i) ==
    IF i > Len(seq) THEN << >>
    ELSE (IF IsFeaturesValue(seq, i) \/ seq[i] = FeaturesFlag
          THEN << >> ELSE << seq[i] >>) \o PlainTokens(seq, i + 1)

(* the arguments said to follow the scan, given whether the job already
   gave --no-default-features *)
ExpectedPostArgs(s, scanned, already) ==
    (IF s.no_default_features /\ ~already
     THEN << NoDefaultFeaturesFlag >> ELSE << >>)
    \o (IF s.all_features THEN << AllFeaturesFlag >> ELSE << >>)
    \o (IF FeaturesValues(scanned) = {} /\ s.features # None
           /\ ~s.all_features
        THEN << FeaturesFlag, s.features[1] >> ELSE << >>)

(* any arguments the handling of the features may add after the scan *)
AnyPostArgs(s) ==
    { a \o b \o c :
        a \in { << >>, << NoDefaultFeaturesFlag >> },
        b \in { << >>, << AllFeaturesFlag >> },
        c \in { << >> } \cup
              (IF s.features # None
               THEN { << FeaturesFlag, s.features[1] >> } ELSE {}) }

(* C4: with extraneous_args and the global all_features set, the arguments
   before the "--" hold no --features: they are the scanned tokens without
   the --features tokens and their values, then --no-default-features or
   not, then --all-features once, and no list of features *)
C4_AllFeaturesDropsFeatures ==
    (Returned /\ job.extraneous_args /\ settings.all_features) =>
        LET pre == BeforeDash(result.out.args)
            kept == PlainTokens(BeforeDash(InputTokens), 1)
        IN  /\ \A i \in 1..Len(pre) : pre[i] # FeaturesFlag
            /\ \/ pre = kept \o << AllFeaturesFlag >>
               \/ pre = kept \o << NoDefaultFeaturesFlag, AllFeaturesFlag >>

C4_Witness ==
    /\ Returned
    /\ settings.all_features
    /\ settings.features = Some(FeatB)
    /\ job.command = << Cargo, Check, FeaturesFlag, FeatAB >>
    /\ settings.additional_job_args = << >>
    /\ ~settings.no_default_features
    /\ result.out.args = << Check, AllFeaturesFlag >>

(* the arguments before the "--" are what the scan emits for the scanned
   tokens, followed by post *)
ScanThenPost(values, posts) ==
    LET pre == BeforeDash(result.out.args)
        scanned == BeforeDash(InputTokens)
    IN  \E k \in 0..Len(pre) :
            /\ From(pre, k + 1) \in posts
            /\ ScanEmits(SubSeq(pre, 1, k), scanned, 1, settings, values)

(* C5: with extraneous_args set, the arguments added after the scan and
   before any "--" are, in this order: --no-default-features iff the global
   no_default_features is set and the scanned tokens do not contain
   --no-default-features; --all-features iff the global all_features is
   set; --features F iff the scan handled no value of a --features, the
   global features are F and all_features is not set *)
C5_PostScanArgsOriginal ==
    (Returned /\ job.extraneous_args) =>
        LET scanned == BeforeDash(InputTokens)
            already == \E i \in 1..Len(scanned) :
                           scanned[i] = NoDefaultFeaturesFlag
        IN  ScanThenPost(FeaturesValues(scanned),
                         { ExpectedPostArgs(settings, scanned, already) })

(* C5, amended: as above, but --no-default-features is added iff the global
   no_default_features is set and the scan passed no --no-default-features
   through: one taken as the value of a --features does not count *)
C5_PostScanArgs ==
    (Returned /\ job.extraneous_args) =>
        LET scanned == BeforeDash(InputTokens)
            already == \E i \in 1..Len(scanned) :
                           /\ scanned[i] = NoDefaultFeaturesFlag
                           /\ ~IsFeaturesValue(scanned, i)
        IN  ScanThenPost(FeaturesValues(scanned),
                         { ExpectedPostArgs(settings, scanned, already) })

C5_Witness ==
    /\ Returned
    /\ job.extraneous_args
    /\ settings.no_default_features
    /\ settings.features = None
    /\ ~settings.all_features
    /\ settings.additional_job_args = << >>
    /\ job.command = << Cargo, Check >>
    /\ result.out.exe = Cargo
    /\ result.out.args = << Check, NoDefaultFeaturesFlag >>

(* C9: with extraneous_args set and all_features unset, every scanned token
   V that comes right after a --features token is resolved by the table
   (features F and no_default_features unset: --features merge(V, F); F and
   set: --features F; none and set: nothing; none and unset: --features V),
   and every other token but --features is passed through in order *)
C9_FeaturesTableOriginal ==
    (Returned /\ job.extraneous_args /\ ~settings.all_features) =>
        ScanThenPost(AfterFeaturesToken(BeforeDash(InputTokens)),
                     AnyPostArgs(settings))

(* C9, amended: the table applies to the token that comes right after a
   --features token that is not itself the value of a --features; a token
   after a --features taken as a value is passed through as any other *)
C9_FeaturesTable ==
    (Returned /\ job.extraneous_args /\ ~settings.all_features) =>
        ScanThenPost(FeaturesValues(BeforeDash(InputTokens)),
                     AnyPostArgs(settings))

C9_Witness ==
    /\ Returned
    /\ job.extraneous_args
    /\ ~settings.all_features
    /\ ~settings.no_default_features
    /\ settings.features = Some(FeatB)
    /\ settings.additional_job_args = << >>
    /\ job.command = << Cargo, FeaturesFlag, FeatAB, Check >>
    /\ result.out.args = << FeaturesFlag, << "b", Comma, "a" >>, Check >>

(* C10: with extraneous_args set, if the tokens given to the scan hold a
   "--", the arguments are what the scan and the handling of the features
   give for the tokens before the first one, then one "--", then the tokens
   after it as they are; with no "--" in the tokens there is none in the
   arguments *)
C10_DoubleDashDefers ==
    (Returned /\ job.extraneous_args) =>
        LET args == result.out.args
        IN  IF FirstDash(InputTokens) <= Len(InputTokens)
            THEN /\ FirstDash(args) <= Len(args)
                 /\ AfterDash(args) = AfterDash(InputTokens)
                 /\ ScanThenPost(FeaturesValues(BeforeDash(InputTokens)),
                                 AnyPostArgs(settings))
            ELSE FirstDash(args) > Len(args)

C10_Witness ==
    /\ Returned
    /\ job.extraneous_args
    /\ settings.no_default_features
    /\ settings.features = Some(FeatB)
    /\ ~settings.all_features
    /\ job.command = << Cargo, Check, DoubleDash, FeaturesFlag, FeatAB >>
    /\ settings.additional_job_args = << FeaturesFlag >>
    /\ result.out.args =
         << Check, NoDefaultFeaturesFlag, FeaturesFlag, FeatB, DoubleDash,
            FeaturesFlag, FeatAB, FeaturesFlag >>

====
